---------------------------- MODULE Spec2Model ----------------------------
(***************************************************************************)
(* Model of kernels/common/scene_instance.h (Instance, InstanceISA) and    *)
(* kernels/subdiv/bezier_curve.h (BezierBasis).                            *)
(*                                                                         *)
(* Numbers are exact: a float is an integer, or an integer numerator over  *)
(* a denominator that is carried beside it.  A time is a pair <<a, b>>     *)
(* standing for a/b with 0 <= a <= b.                                      *)
(***************************************************************************)
EXTENDS Integers, Sequences, FiniteSets, TLC

(***************************************************************************)
(* Bounds of the model.                                                    *)
(***************************************************************************)
MaxSteps == 3
MaxDen == 2
MaxLanes == 3
MaxSegments == 3
MaxBuf == 2
MaxGrid == 8

(***************************************************************************)
(* enum TransformationInterpolation                                        *)
(***************************************************************************)
LINEAR == 0
NONLINEAR == 1

(***************************************************************************)
(* Scalars, Vec3fa (four lanes x, y, z, w), AffineSpace3fa (vx, vy, vz, p). *)
(***************************************************************************)
Min(a, b) == IF a <= b THEN a ELSE b
Max(a, b) == IF a >= b THEN a ELSE b
Clamp(x, lo, hi) == Min(Max(x, lo), hi)
SetMin(S) == CHOOSE x \in S : \A y \in S : x <= y
SetMax(S) == CHOOSE x \in S : \A y \in S : x >= y

VAdd(a, b) == <<a[1] + b[1], a[2] + b[2], a[3] + b[3], a[4] + b[4]>>
VScale(s, a) == <<s * a[1], s * a[2], s * a[3], s * a[4]>>
VNeg(a) == VScale(-1, a)
Cross(a, b) ==
    <<a[2] * b[3] - a[3] * b[2], a[3] * b[1] - a[1] * b[3],
      a[1] * b[2] - a[2] * b[1], 0>>
Dot(a, b) == a[1] * b[1] + a[2] * b[2] + a[3] * b[3]

One ==
    [vx |-> <<1, 0, 0, 0>>, vy |-> <<0, 1, 0, 0>>, vz |-> <<0, 0, 1, 0>>,
     p |-> <<0, 0, 0, 0>>]

(* the linear part of m applied to v: v.x*m.vx + v.y*m.vy + v.z*m.vz *)
XfmVector(m, v) ==
    VAdd(VScale(v[1], m.vx), VAdd(VScale(v[2], m.vy), VScale(v[3], m.vz)))

(* AffineSpace a * b = (a.l * b.l, a.l * b.p + a.p) *)
AffMul(a, b) ==
    [vx |-> XfmVector(a, b.vx), vy |-> XfmVector(a, b.vy),
     vz |-> XfmVector(a, b.vz), p |-> VAdd(XfmVector(a, b.p), a.p)]

AffScale(s, a) ==
    [vx |-> VScale(s, a.vx), vy |-> VScale(s, a.vy), vz |-> VScale(s, a.vz),
     p |-> VScale(s, a.p)]

AffAdd(a, b) ==
    [vx |-> VAdd(a.vx, b.vx), vy |-> VAdd(a.vy, b.vy), vz |-> VAdd(a.vz, b.vz),
     p |-> VAdd(a.p, b.p)]

(* LinearSpace3fa(Quaternion3f q), q = [r, i, j, k] *)
QuaternionToLinearSpace(q) ==
    [vx |-> <<q.r * q.r + q.i * q.i - q.j * q.j - q.k * q.k,
              2 * (q.i * q.j + q.r * q.k), 2 * (q.i * q.k - q.r * q.j), 0>>,
     vy |-> <<2 * (q.i * q.j - q.r * q.k),
              q.r * q.r - q.i * q.i + q.j * q.j - q.k * q.k,
              2 * (q.j * q.k + q.r * q.i), 0>>,
     vz |-> <<2 * (q.i * q.k + q.r * q.j), 2 * (q.j * q.k - q.r * q.i),
              q.r * q.r - q.i * q.i - q.j * q.j + q.k * q.k, 0>>,
     p |-> <<0, 0, 0, 0>>]

(* compute affine transform from quaternion decomposition: D * R * M *)
quaternionDecompositionToAffineSpace(qd) ==
    LET q == [r |-> qd.vx[4], i |-> qd.vy[4], j |-> qd.vz[4], k |-> qd.p[4]]
        D == [One EXCEPT !.p = <<qd.vx[2], qd.vx[3], qd.vy[3], 0>>]
        M == [qd EXCEPT !.vx = <<qd.vx[1], 0, 0, qd.vx[4]>>,
                        !.vy = <<qd.vy[1], qd.vy[2], 0, qd.vy[4]>>]
        R == QuaternionToLinearSpace(q)
    IN  AffMul(AffMul(D, R), M)

(* lerp(a, b, f) = (1-f)*a + f*b at f = fnum/fden; the result is fden times
   the transform, its denominator carried in den *)
Lerp(a, b, fnum, fden) ==
    [kind |-> "affine", den |-> fden,
     m |-> AffAdd(AffScale(fden - fnum, a), AffScale(fnum, b))]

(* slerp(a, b, f) of two quaternion decompositions: the quaternion is
   interpolated on the sphere, which has no exact value here; the result is
   the term naming the two keys and the fraction *)
Slerp(a, b, fnum, fden) ==
    [kind |-> "slerp", den |-> fden, a |-> a, b |-> b, fnum |-> fnum]

(* rcp(AffineSpace): il = adjoint(l)/det(l), (il, -(il * p)); x is an
   interpolated transform with its denominator; the result keeps adjoint and
   determinant apart (den = 0: a singular transform, no inverse) *)
Rcp(x) ==
    IF x.kind = "slerp" THEN [kind |-> "rcp_slerp", of |-> x]
    ELSE
    LET m == x.m
        c1 == Cross(m.vy, m.vz)
        c2 == Cross(m.vz, m.vx)
        c3 == Cross(m.vx, m.vy)
        adj == [vx |-> <<c1[1], c2[1], c3[1], 0>>,
                vy |-> <<c1[2], c2[2], c3[2], 0>>,
                vz |-> <<c1[3], c2[3], c3[3], 0>>, p |-> <<0, 0, 0, 0>>]
    IN  [kind |-> "rcp", den |-> Dot(m.vx, c1),
         l |-> AffScale(x.den, adj), p |-> VNeg(XfmVector(adj, m.p))]

(***************************************************************************)
(* BBox3fa: lower and upper corner; fin = FALSE stands for a box with a    *)
(* NaN or infinite coordinate (the empty box, or anything computed from    *)
(* one).                                                                   *)
(***************************************************************************)
Box(lo, hi) == [lower |-> lo, upper |-> hi, fin |-> TRUE]
EmptyBox == [lower |-> <<0, 0, 0>>, upper |-> <<0, 0, 0>>, fin |-> FALSE]
UnitBox == Box(<<-1, -1, -1>>, <<1, 1, 1>>)

(* the magnitude from which on a coordinate no longer counts as finite *)
FLT_LARGE == 1000

(* isvalid(BBox3fa): every coordinate lies strictly inside the finite range *)
isvalid(b) ==
    b.fin /\ \A i \in 1..3 : b.lower[i] > -FLT_LARGE /\ b.upper[i] < FLT_LARGE

BoxScale(s, b) ==
    [b EXCEPT !.lower = <<s * b.lower[1], s * b.lower[2], s * b.lower[3]>>,
              !.upper = <<s * b.upper[1], s * b.upper[2], s * b.upper[3]>>]

BoxLerp(b0, b1, fnum, fden) ==
    [lower |-> [i \in 1..3 |-> (fden - fnum) * b0.lower[i] + fnum * b1.lower[i]],
     upper |-> [i \in 1..3 |-> (fden - fnum) * b0.upper[i] + fnum * b1.upper[i]],
     fin |-> b0.fin /\ b1.fin]

BoxMerge(b0, b1) ==
    [lower |-> [i \in 1..3 |-> Min(b0.lower[i], b1.lower[i])],
     upper |-> [i \in 1..3 |-> Max(b0.upper[i], b1.upper[i])],
     fin |-> b0.fin /\ b1.fin]

(* xfmPoint(m, pt) = pt.x*m.vx + pt.y*m.vy + pt.z*m.vz + m.p; ps scales m.p
   when m and pt both carry the denominator ps *)
XfmPoint(m, pt, ps) ==
    [i \in 1..3 |->
        pt[1] * m.vx[i] + pt[2] * m.vy[i] + pt[3] * m.vz[i] + ps * m.p[i]]

(* xfmBounds(m, b): the box of the eight transformed corners *)
XfmBoundsScaled(m, b, ps) ==
    IF ~b.fin THEN EmptyBox
    ELSE
    LET corners ==
            {XfmPoint(m, <<x, y, z>>, ps) :
                x \in {b.lower[1], b.upper[1]}, y \in {b.lower[2], b.upper[2]},
                z \in {b.lower[3], b.upper[3]}}
    IN  [lower |-> [i \in 1..3 |-> SetMin({c[i] : c \in corners})],
         upper |-> [i \in 1..3 |-> SetMax({c[i] : c \in corners})],
         fin |-> TRUE]

xfmBounds(m, b) == XfmBoundsScaled(m, b, 1)

(***************************************************************************)
(* The transforms and decompositions the mutators are called with.         *)
(***************************************************************************)
Translate(x) == [One EXCEPT !.p = <<x, 0, 0, 0>>]

(* quaternion decomposition: quaternion (r,i,j,k) in vx.w, vy.w, vz.w, p.w;
   D's translation in vx.y, vx.z, vy.z; here a half turn about z followed by
   a translation by (x, 0, 0) *)
QdHalfTurnZ(x) ==
    [vx |-> <<1, x, 0, 0>>, vy |-> <<0, 1, 0, 0>>, vz |-> <<0, 0, 1, 0>>,
     p |-> <<0, 0, 0, 1>>]

Affines == {One, Translate(10)}
QDs == {QdHalfTurnZ(5)}

(* whether a stored entry deviates from pure-affine packing *)
IsQuaternionDecomposition(m) ==
    m.vx[4] # 0 \/ m.vy[4] # 0 \/ m.vz[4] # 0 \/ m.p[4] # 0

(* reduced fractions a/b in [0,1] *)
Gcd(a, b) == SetMax({d \in 1..b : a % d = 0 /\ b % d = 0})
Times == {<<a, b>> \in (0..MaxDen) \X (1..MaxDen) : a <= b /\ Gcd(a, b) = 1}


(***************************************************************************)
(* State.                                                                  *)
(*   Instance fields: numTimeSteps, local2world (one entry per time step,  *)
(*   step i is local2world[i+1]), world2local0, interpolation, object (the *)
(*   bounds the instanced accelerator reports).                            *)
(*   err, lastOp: the outcome and the arguments of the last mutator call.  *)
(*   result: what the last query returned since the last mutator call.     *)
(*   qdSincePass: whether setQuaternionDecomposition wrote a step since    *)
(*   the last mode-recomputation pass.                                     *)
(*   Batched getWorld2Local(valid, t), lanes 0..K-1: pc (where the call    *)
(*   is), valid, t, itime_k, ftime, valid1, space0, space1, out (the       *)
(*   returned transform of every lane), iters (loop iterations so far),    *)
(*   selected (how often each lane was selected into space0/space1).       *)
(*   Primitive-reference producers: prims (the output buffer, indexed from *)
(*   0), pinfo (the statistics the last call returned), call (the last     *)
(*   call's arguments).                                                    *)
(*   BezierBasis: u (the parameter k/n as <<k, n>>), basis (the weight     *)
(*   vector the last call returned, as numerators over den).               *)
(*   BezierCurveT bounds: curve (v0..v3, each x, y, z and radius), vsizex  *)
(*   (the lane width VSIZEX), beyond (what a lane computes from a table    *)
(*   entry past the granularity), cpc, cfn, cN, ci (where the call is, the *)
(*   routine, its segment count, the loop index), pl, pu, ru (the per-lane *)
(*   accumulators), box (the returned box, numerators over box.den), loads *)
(*   (the lane-wide table loads of the call).                              *)
(***************************************************************************)
VARIABLES numTimeSteps, local2world, world2local0, interpolation, object,
          err, lastOp, result, qdSincePass,
          pc, valid, t_k, itime_k, ftime, valid1, space0, space1, out, iters,
          selected,
          prims, pinfo, call,
          u, basis,
          curve, vsizex, beyond, cpc, cfn, cN, ci, pl, pu, ru, box, loads

instVars == <<numTimeSteps, local2world, world2local0, interpolation, object>>
callVars == <<err, lastOp, result, qdSincePass>>
batchVars ==
    <<pc, valid, t_k, itime_k, ftime, valid1, space0, space1, out, iters,
      selected>>
prodVars == <<prims, pinfo, call>>
bezVars == <<u, basis>>
curveVars ==
    <<curve, vsizex, beyond, cpc, cfn, cN, ci, pl, pu, ru, box, loads>>
otherVars == <<batchVars, prodVars, bezVars, curveVars>>

NoResult == [op |-> "none"]

(* no batched call in progress *)
BatchIdle ==
    /\ pc = "idle"
    /\ valid = {} /\ valid1 = {}
    /\ t_k = <<>> /\ itime_k = <<>> /\ ftime = <<>>
    /\ space0 = <<>> /\ space1 = <<>> /\ out = <<>> /\ selected = <<>>
    /\ iters = 0

(* an entry of the output buffer nothing was written to *)
Unwritten == [bounds |-> EmptyBox, geomID |-> -1, primID |-> -1]

(* PrimInfo(empty) *)
EmptyInfo == [num |-> 0, geomBounds |-> EmptyBox, centBounds |-> EmptyBox]

NoCall ==
    [fn |-> "none", k |-> 0, geomID |-> 0, itime |-> 0, t0 |-> <<0, 1>>,
     t1 |-> <<1, 1>>]

ProdIdle ==
    /\ prims = [j \in 0..(MaxBuf - 1) |-> Unwritten]
    /\ pinfo = EmptyInfo
    /\ call = NoCall

BezIdle ==
    /\ u = <<0, 1>>
    /\ basis = [fn |-> "none"]

NoBox == [den |-> 1, lower |-> <<0, 0, 0>>, upper |-> <<0, 0, 0>>]

CurveIdle ==
    /\ curve = <<<<0, 0, 0, 0>>, <<0, 0, 0, 0>>, <<0, 0, 0, 0>>, <<0, 0, 0, 0>>>>
    /\ vsizex = 4
    /\ beyond = <<0, 0, 0, 0>>
    /\ cpc = "idle"
    /\ cfn = "none"
    /\ cN = 0
    /\ ci = 0
    /\ pl = <<>>
    /\ pu = <<>>
    /\ ru = <<>>
    /\ box = NoBox
    /\ loads = {}

Op(name, arg, m) == [op |-> name, arg |-> arg, m |-> m]

(* local2world[i] of the source, i counted from 0 *)
Local2WorldAt(i) ==
    IF i \in 0..(numTimeSteps - 1) THEN local2world[i + 1] ELSE One

Exact(m) == [kind |-> "affine", den |-> 1, m |-> m]

(***************************************************************************)
(* Instance::Instance(device, object, numTimeSteps = 1)                    *)
(***************************************************************************)
InitInstance ==
    /\ numTimeSteps = 1
    /\ local2world = <<One>>
    /\ world2local0 = Rcp(Exact(One))
    /\ interpolation = LINEAR
    /\ object = UnitBox
    /\ err = "none"
    /\ lastOp = Op("create", 1, One)
    /\ result = NoResult
    /\ qdSincePass = FALSE
    /\ BatchIdle
    /\ ProdIdle
    /\ BezIdle
    /\ CurveIdle

(***************************************************************************)
(* Mutators.                                                               *)
(***************************************************************************)
Fail(name, arg, m, condition) ==
    /\ err' = condition
    /\ lastOp' = Op(name, arg, m)
    /\ result' = NoResult
    /\ UNCHANGED <<instVars, qdSincePass, otherVars>>

(* a mutator that reallocates before it validates *)
SetNumTimeStepsReallocFirst(n) ==
    /\ numTimeSteps' = n
    /\ local2world' =
          [i \in 1..n |-> IF i <= numTimeSteps THEN local2world[i] ELSE One]
    /\ err' = IF n = 0 THEN "invalid_argument" ELSE "none"
    /\ lastOp' = Op("setNumTimeSteps", n, One)
    /\ result' = NoResult
    /\ UNCHANGED <<world2local0, interpolation, object, qdSincePass,
                        otherVars>>

SetNumTimeSteps(n) ==
    IF n = 0
    THEN Fail("setNumTimeSteps", n, One, "invalid_argument")
    ELSE /\ numTimeSteps' = n
         /\ local2world' =
               [i \in 1..n |-> IF i <= numTimeSteps THEN local2world[i] ELSE One]
         /\ err' = "none"
         /\ lastOp' = Op("setNumTimeSteps", n, One)
         /\ result' = NoResult
         /\ UNCHANGED <<world2local0, interpolation, object, qdSincePass,
                        otherVars>>

WriteStep(name, m, timeStep) ==
    IF timeStep >= numTimeSteps
    THEN Fail(name, timeStep, m, "out_of_range")
    ELSE /\ local2world' = [local2world EXCEPT ![timeStep + 1] = m]
         /\ err' = "none"
         /\ lastOp' = Op(name, timeStep, m)
         /\ result' = NoResult
         /\ qdSincePass' = (qdSincePass \/ name = "setQuaternionDecomposition")
         /\ UNCHANGED <<numTimeSteps, world2local0, interpolation, object,
                        otherVars>>

SetTransform(m, timeStep) == WriteStep("setTransform", m, timeStep)

(* a write that switches the mode itself *)
SetQuaternionDecompositionEager(qd, timeStep) ==
    IF timeStep >= numTimeSteps
    THEN Fail("setQuaternionDecomposition", timeStep, qd, "out_of_range")
    ELSE /\ local2world' = [local2world EXCEPT ![timeStep + 1] = qd]
         /\ interpolation' = NONLINEAR
         /\ err' = "none"
         /\ lastOp' = Op("setQuaternionDecomposition", timeStep, qd)
         /\ result' = NoResult
         /\ qdSincePass' = TRUE
         /\ UNCHANGED <<numTimeSteps, world2local0, object, otherVars>>

SetQuaternionDecomposition(qd, timeStep) ==
    WriteStep("setQuaternionDecomposition", qd, timeStep)

(* computes the interpolation mode to use by looking at the type of matrices
   set by the user *)
updateInterpolationMode(l2w) ==
    IF \E i \in DOMAIN l2w : IsQuaternionDecomposition(l2w[i])
    THEN NONLINEAR ELSE LINEAR

getLocal2WorldIn(mode) ==
    IF mode = NONLINEAR
    THEN quaternionDecompositionToAffineSpace(Local2WorldAt(0))
    ELSE Local2WorldAt(0)

getLocal2World == getLocal2WorldIn(interpolation)

(* preCommit / commit / postCommit: the mode-recomputation pass, then the
   cached inverse of the transform of step 0 *)
Commit ==
    /\ interpolation' = updateInterpolationMode(local2world)
    /\ world2local0' =
          Rcp(Exact(getLocal2WorldIn(updateInterpolationMode(local2world))))
    /\ err' = "none"
    /\ lastOp' = Op("commit", 0, One)
    /\ result' = NoResult
    /\ qdSincePass' = FALSE
    /\ UNCHANGED <<numTimeSteps, local2world, object, otherVars>>

(***************************************************************************)
(* Queries.                                                                *)
(***************************************************************************)
(* Geometry::timeSegment(t, ftime): the segment index and the fraction     *)
(* inside the segment, for numTimeSteps - 1 segments                       *)
timeSegment(t) ==
    LET nseg == numTimeSteps - 1
        itime == Clamp((t[1] * nseg) \div t[2], 0, nseg - 1)
    IN  [itime |-> itime, fnum |-> t[1] * nseg - itime * t[2], fden |-> t[2]]

Interpolate(mode, a, b, fnum, fden) ==
    IF mode = NONLINEAR THEN Slerp(a, b, fnum, fden)
    ELSE Lerp(a, b, fnum, fden)

(* reads the key after the one it should *)
getLocal2WorldAtTimeShifted(t) ==
    LET s == timeSegment(t)
    IN  [val |-> Interpolate(interpolation, Local2WorldAt(s.itime + 1),
                             Local2WorldAt(s.itime + 2), s.fnum, s.fden),
         reads |-> {s.itime + 1, s.itime + 2}]

(* getLocal2World(float t), with the indices of local2world it reads *)
getLocal2WorldAtTime(t) ==
    LET s == timeSegment(t)
    IN  [val |-> Interpolate(interpolation, Local2WorldAt(s.itime),
                             Local2WorldAt(s.itime + 1), s.fnum, s.fden),
         reads |-> {s.itime, s.itime + 1}]

GetTransform(t) ==
    /\ result' =
          IF numTimeSteps <= 1
          THEN [op |-> "getTransform", t |-> t, val |-> Exact(getLocal2World),
                reads |-> {0}]
          ELSE [op |-> "getTransform", t |-> t,
                val |-> getLocal2WorldAtTime(t).val,
                reads |-> getLocal2WorldAtTime(t).reads]
    /\ UNCHANGED <<instVars, err, lastOp, qdSincePass, otherVars>>

(* bounds(size_t i): i == 0 *)
bounds0 == xfmBounds(Local2WorldAt(0), object)

(* getObjectBounds(itime) *)
getObjectBounds(itime) == object

(* bounds(size_t i, size_t itime): i == 0 *)
boundsAt(itime) == xfmBounds(Local2WorldAt(itime), getObjectBounds(itime))

Bounds0Query ==
    /\ result' = [op |-> "bounds", itime |-> 0, box |-> bounds0]
    /\ UNCHANGED <<instVars, err, lastOp, qdSincePass, otherVars>>

BoundsAtQuery(itime) ==
    /\ itime < numTimeSteps
    /\ result' = [op |-> "bounds", itime |-> itime, box |-> boundsAt(itime)]
    /\ UNCHANGED <<instVars, err, lastOp, qdSincePass, otherVars>>

vars == <<instVars, callVars, batchVars, prodVars, bezVars, curveVars>>

NextInstance ==
    \/ \E n \in 0..MaxSteps : SetNumTimeSteps(n)
    \/ \E m \in Affines, i \in 0..MaxSteps : SetTransform(m, i)
    \/ \E m \in QDs, i \in 0..MaxSteps : SetQuaternionDecomposition(m, i)
    \/ Commit
    \/ \E t \in Times : GetTransform(t)
    \/ Bounds0Query
    \/ \E i \in 0..(MaxSteps - 1) : BoundsAtQuery(i)

SpecInstance == InitInstance /\ [][NextInstance]_vars


(***************************************************************************)
(* Batched world-to-local evaluation: getWorld2Local(valid, t) for K lanes *)
(* dispatches on the mode to getWorld2LocalSlerp or getWorld2LocalLerp.    *)
(* A call is followed step by step: the entry up to the fast-path test,    *)
(* each iteration of the slow path's loop, the return after the loop.      *)
(***************************************************************************)
Lanes(K) == 0..(K - 1)

any(mask) == mask # {}
bsf(mask) == SetMin(mask)

(* returns the next unique value i in vi and the corresponding valid_i mask,
   and removes valid_i from valid *)
next_unique(v, vi) ==
    LET j == bsf(v)
        i == vi[j]
        valid_i == {l \in v : vi[l] = i}
    IN  [itime |-> i, valid2 |-> valid_i, valid1 |-> v \ valid_i]

(* select(mask, a, b): a (the same in every lane) where mask is set *)
select(mask, a, b) == [l \in DOMAIN b |-> IF l \in mask THEN a ELSE b[l]]

(* getWorld2Local(float t) = rcp(getLocal2World(t)) *)
getWorld2LocalAtTime(t) == Rcp(getLocal2WorldAtTime(t).val)

(* what space0 and space1 may hold before anything is selected into them *)
Uninitialized == {One, Translate(-7)}

(* the entry of getWorld2LocalSlerp / getWorld2LocalLerp up to the fast-path
   test: mode is the variant, start the mask the loop starts from *)
Entry(mode, K, v, tk, junk, start) ==
    LET seg == [l \in Lanes(K) |-> timeSegment(tk[l])]
        ik == [l \in Lanes(K) |-> seg[l].itime]
        index == bsf(v)
        itime == ik[index]
    IN  /\ pc = "idle"
        /\ any(v)
        /\ interpolation = mode
        /\ valid' = v
        /\ t_k' = tk
        /\ itime_k' = ik
        /\ ftime' = [l \in Lanes(K) |-> <<seg[l].fnum, seg[l].fden>>]
        /\ selected' = [l \in Lanes(K) |-> 0]
        /\ iters' = 0
        /\ IF \A l \in v : ik[l] = itime
           THEN /\ out' = [l \in Lanes(K) |->
                             Rcp(Interpolate(mode, Local2WorldAt(itime),
                                             Local2WorldAt(itime + 1),
                                             seg[l].fnum, seg[l].fden))]
                /\ pc' = "done"
                /\ valid1' = {}
                /\ space0' = <<>>
                /\ space1' = <<>>
           ELSE /\ out' = <<>>
                /\ pc' = IF mode = NONLINEAR THEN "slerp_loop" ELSE "lerp_loop"
                /\ valid1' = start
                /\ space0' = [l \in Lanes(K) |-> junk]
                /\ space1' = [l \in Lanes(K) |-> junk]
        /\ UNCHANGED <<instVars, callVars, prodVars, bezVars, curveVars>>

(* one iteration of while (any(valid1)) *)
Iteration(at) ==
    LET nu == next_unique(valid1, itime_k)
    IN  /\ pc = at
        /\ any(valid1)
        /\ valid1' = nu.valid1
        /\ space0' = select(nu.valid2, Local2WorldAt(nu.itime), space0)
        /\ space1' = select(nu.valid2, Local2WorldAt(nu.itime + 1), space1)
        /\ selected' = [l \in DOMAIN selected |->
                           selected[l] + IF l \in nu.valid2 THEN 1 ELSE 0]
        /\ iters' = iters + 1
        /\ UNCHANGED <<instVars, callVars, prodVars, bezVars, curveVars,
                       pc, valid, t_k, itime_k, ftime, out>>

(* the return after the loop *)
AfterLoop(at, mode) ==
    /\ pc = at
    /\ ~any(valid1)
    /\ out' = [l \in DOMAIN ftime |->
                  Rcp(Interpolate(mode, space0[l], space1[l],
                                  ftime[l][1], ftime[l][2]))]
    /\ pc' = "done"
    /\ UNCHANGED <<instVars, callVars, prodVars, bezVars, curveVars,
                   valid, t_k, itime_k, ftime, valid1,
                   space0, space1, iters, selected>>

getWorld2LocalSlerp(K, v, tk, junk) == Entry(NONLINEAR, K, v, tk, junk, v)

getWorld2LocalSlerpLoop == Iteration("slerp_loop")

getWorld2LocalSlerpReturn == AfterLoop("slerp_loop", NONLINEAR)

(* the loop starts from every lane instead of the valid ones *)
getWorld2LocalLerpAllLanes(K, v, tk, junk) ==
    Entry(LINEAR, K, v, tk, junk, Lanes(K))

getWorld2LocalLerp(K, v, tk, junk) == Entry(LINEAR, K, v, tk, junk, v)

(* the iteration works on a copy of the mask *)
getWorld2LocalLerpLoopCopiedMask ==
    LET nu == next_unique(valid1, itime_k)
    IN  /\ pc = "lerp_loop"
        /\ any(valid1)
        /\ valid1' = valid1
        /\ space0' = select(nu.valid2, Local2WorldAt(nu.itime), space0)
        /\ space1' = select(nu.valid2, Local2WorldAt(nu.itime + 1), space1)
        /\ selected' = [l \in DOMAIN selected |->
                           selected[l] + IF l \in nu.valid2 THEN 1 ELSE 0]
        /\ iters' = iters + 1
        /\ UNCHANGED <<instVars, callVars, prodVars, bezVars, curveVars,
                       pc, valid, t_k, itime_k, ftime, out>>

(* space1 takes the key of space0 *)
getWorld2LocalLerpLoopSameKey ==
    LET nu == next_unique(valid1, itime_k)
    IN  /\ pc = "lerp_loop"
        /\ any(valid1)
        /\ valid1' = nu.valid1
        /\ space0' = select(nu.valid2, Local2WorldAt(nu.itime), space0)
        /\ space1' = select(nu.valid2, Local2WorldAt(nu.itime), space1)
        /\ selected' = [l \in DOMAIN selected |->
                           selected[l] + IF l \in nu.valid2 THEN 1 ELSE 0]
        /\ iters' = iters + 1
        /\ UNCHANGED <<instVars, callVars, prodVars, bezVars, curveVars,
                       pc, valid, t_k, itime_k, ftime, out>>

getWorld2LocalLerpLoop == Iteration("lerp_loop")

getWorld2LocalLerpReturn == AfterLoop("lerp_loop", LINEAR)

(* the caller has read the lanes of out it asked for *)
BatchDone ==
    /\ pc = "done"
    /\ pc' = "idle"
    /\ valid' = {} /\ valid1' = {}
    /\ t_k' = <<>> /\ itime_k' = <<>> /\ ftime' = <<>>
    /\ space0' = <<>> /\ space1' = <<>> /\ out' = <<>> /\ selected' = <<>>
    /\ iters' = 0
    /\ UNCHANGED <<instVars, callVars, prodVars, bezVars, curveVars>>

(* a committed instance with distinct keys; time queries are made of
   instances with at least two time steps *)
BatchKey(mode, i) ==
    IF mode = NONLINEAR THEN QdHalfTurnZ(5 * i) ELSE Translate(10 * i)

InitBatch ==
    /\ numTimeSteps \in 2..(MaxSegments + 1)
    /\ interpolation \in {LINEAR, NONLINEAR}
    /\ local2world = [i \in 1..numTimeSteps |-> BatchKey(interpolation, i - 1)]
    /\ world2local0 = Rcp(Exact(getLocal2WorldIn(interpolation)))
    /\ object = UnitBox
    /\ err = "none"
    /\ lastOp = Op("commit", 0, One)
    /\ result = NoResult
    /\ qdSincePass = FALSE
    /\ BatchIdle
    /\ ProdIdle
    /\ BezIdle
    /\ CurveIdle

NextBatch ==
    \/ /\ pc = "idle"
       /\ interpolation = NONLINEAR
       /\ \E K \in 1..MaxLanes :
             \E v \in SUBSET Lanes(K), tk \in [Lanes(K) -> Times],
                junk \in Uninitialized : getWorld2LocalSlerp(K, v, tk, junk)
    \/ /\ pc = "idle"
       /\ interpolation = LINEAR
       /\ \E K \in 1..MaxLanes :
             \E v \in SUBSET Lanes(K), tk \in [Lanes(K) -> Times],
                junk \in Uninitialized : getWorld2LocalLerp(K, v, tk, junk)
    \/ getWorld2LocalSlerpLoop
    \/ getWorld2LocalSlerpReturn
    \/ getWorld2LocalLerpLoop
    \/ getWorld2LocalLerpReturn
    \/ BatchDone

SpecBatch == InitBatch /\ [][NextBatch]_vars

(***************************************************************************)
(* Claims about the batched evaluation, checked under SpecBatch.           *)
(***************************************************************************)
(* C1: the batched getWorld2Local(valid, t) gives every active lane the
   result of the scalar getWorld2Local(t) of that lane's own time: on the
   slow path the keys selected for the lane are local2world[s] and
   local2world[s+1], s the lane's own segment; on both paths and in both
   variants the returned transform is that of the scalar query. *)
C1_BatchedEqualsScalar ==
    pc = "done" =>
        \A l \in valid :
            /\ out[l] = getWorld2LocalAtTime(t_k[l])
            /\ iters > 0 =>
                  /\ space0[l] = Local2WorldAt(timeSegment(t_k[l]).itime)
                  /\ space1[l] = Local2WorldAt(timeSegment(t_k[l]).itime + 1)

C1_Witness ==
    /\ pc = "done"
    /\ iters = 3
    /\ interpolation = LINEAR
    /\ Cardinality(valid) = 3
    /\ out[bsf(valid)] = getWorld2LocalAtTime(<<1, 2>>)

(* C2: every iteration of the slow path's loop removes at least one lane
   from valid1, and the number of iterations never exceeds the number of
   active lanes, which is at most the lane width K. *)
C2_LoopRemovesLanes ==
    [][iters' = iters + 1 =>
          /\ valid1' \subseteq valid1
          /\ valid1' # valid1
          /\ iters' + Cardinality(valid1') <= Cardinality(valid)
          /\ Cardinality(valid) <= Cardinality(DOMAIN t_k)]_vars

C2_Witness ==
    /\ pc = "done"
    /\ iters = MaxLanes
    /\ Cardinality(DOMAIN t_k) = MaxLanes

(* C3: on the slow path the lane groups of the loop's iterations partition
   the active lanes: no lane is selected twice, no inactive lane is ever
   selected, the lanes selected so far and the lanes still in valid1 make up
   valid, and at the return every active lane has been selected once. *)
InLoop == pc \in {"slerp_loop", "lerp_loop"}

C3_GroupsPartitionActiveLanes ==
    /\ (InLoop \/ pc = "done") =>
          \A l \in DOMAIN selected :
              /\ selected[l] <= 1
              /\ l \notin valid => selected[l] = 0
              /\ (InLoop /\ l \in valid) => (selected[l] = 1 <=> l \notin valid1)
    /\ (pc = "done" /\ iters > 0) => \A l \in valid : selected[l] = 1

C3_Witness ==
    /\ pc = "done"
    /\ iters = 2
    /\ Cardinality(valid) = 2
    /\ Cardinality(DOMAIN t_k) = 3
    /\ interpolation = NONLINEAR
    /\ \E l \in DOMAIN space0 : l \notin valid /\ space0[l] = Translate(-7)

(***************************************************************************)
(* Claims about the instance's mutators and single-time queries, checked   *)
(* under SpecInstance.                                                     *)
(***************************************************************************)
Writes == {"setTransform", "setQuaternionDecomposition"}

(* the affine transform of key i under the current mode: the stored matrix
   in LINEAR mode, the one reconstructed from the stored decomposition in
   NONLINEAR mode (getLocal2World() for i = 0) *)
KeyTransform(i) ==
    IF interpolation = NONLINEAR
    THEN quaternionDecompositionToAffineSpace(Local2WorldAt(i))
    ELSE Local2WorldAt(i)

(* C5: in both modes bounds(0) and bounds(0, itime) are the object's bounds
   transformed by the local-to-world transform of that key, the transform
   getLocal2World() returns for step 0.  The code transforms by the stored
   entry in both modes, so this fails in NONLINEAR mode. *)
C5_BoundsUseKeyTransform ==
    result.op = "bounds" =>
        result.box = xfmBounds(KeyTransform(result.itime), object)

(* C6: in LINEAR mode, right after a successful setTransform(M, i) the query
   getTransform(i/(n-1)) (getTransform(0) when n = 1) returns exactly M and
   reads only entries 0..n-1 of the transform array. *)
IsKeyTime(t, i) ==
    IF numTimeSteps = 1 THEN t[1] = 0
    ELSE t[1] * (numTimeSteps - 1) = i * t[2]

C6_RoundTrip ==
    (/\ result.op = "getTransform"
     /\ interpolation = LINEAR
     /\ lastOp.op = "setTransform"
     /\ err = "none"
     /\ IsKeyTime(result.t, lastOp.arg))
    => /\ result.val.kind = "affine"
       /\ result.val.m = AffScale(result.val.den, lastOp.m)
       /\ result.reads \subseteq 0..(numTimeSteps - 1)

C6_Witness ==
    /\ result.op = "getTransform"
    /\ interpolation = LINEAR
    /\ lastOp.op = "setTransform"
    /\ err = "none"
    /\ numTimeSteps >= 2
    /\ lastOp.arg = numTimeSteps - 1
    /\ lastOp.m = Translate(10)
    /\ result.t = <<1, 1>>
    /\ local2world[1] = One

(* C8 as stated: a write never changes the mode, the mode changes only in
   the pass, and a quaternion decomposition written to any step since the
   last pass makes the instance NONLINEAR after the next pass. *)
C8_Original ==
    [][/\ interpolation' # interpolation => lastOp'.op = "commit"
       /\ (lastOp'.op = "commit" /\ qdSincePass)
              => interpolation' = NONLINEAR]_vars

(* C8 as amended: the mode changes only in the pass; after the pass the
   instance is NONLINEAR if a quaternion decomposition is stored in any step
   when the pass runs, and LINEAR otherwise. *)
C8_ModeFromStoredEntries ==
    [][/\ interpolation' # interpolation => lastOp'.op = "commit"
       /\ lastOp'.op = "commit" =>
             interpolation' =
                 IF \E i \in 1..numTimeSteps :
                        IsQuaternionDecomposition(local2world[i])
                 THEN NONLINEAR ELSE LINEAR]_vars

C8_Witness ==
    /\ lastOp.op = "commit"
    /\ interpolation = NONLINEAR
    /\ \E i, j \in 1..numTimeSteps :
          /\ IsQuaternionDecomposition(local2world[i])
          /\ ~IsQuaternionDecomposition(local2world[j])

(* C9: a write to a step >= the step count fails with out-of-range and
   setNumTimeSteps(0) fails with invalid-argument, both leaving the
   instance's state unchanged; a successful write changes only the entry of
   its step. *)
C9_FailuresLeaveStateUnchanged ==
    [][LET o == lastOp' IN
       /\ (o.op \in Writes /\ o.arg >= numTimeSteps)
              => (err' = "out_of_range" /\ UNCHANGED instVars)
       /\ (o.op = "setNumTimeSteps" /\ o.arg = 0)
              => (err' = "invalid_argument" /\ UNCHANGED instVars)
       /\ (o.op \in Writes /\ o.arg < numTimeSteps)
              => /\ err' = "none"
                 /\ numTimeSteps' = numTimeSteps
                 /\ local2world'[o.arg + 1] = o.m
                 /\ \A i \in 1..numTimeSteps :
                       i # o.arg + 1 => local2world'[i] = local2world[i]
                 /\ UNCHANGED <<world2local0, interpolation, object>>]_vars

C9_Witness ==
    /\ err = "out_of_range"
    /\ lastOp.op = "setQuaternionDecomposition"
    /\ lastOp.arg = numTimeSteps
    /\ numTimeSteps = 2
    /\ local2world[2] = Translate(10)
    /\ world2local0 # Rcp(Exact(One))


(***************************************************************************)
(* The primitive-reference producers of InstanceISA.                       *)
(***************************************************************************)
(* nonlinearBounds(time_range_in, geom_time_range, geom_time_segments): the
   linear envelope over the range [t0, t1]; its boxes are not computed here,
   the value names the range and the interpolation it was computed for *)
nonlinearBounds(t0, t1) ==
    [kind |-> "lbbox", t0 |-> t0, t1 |-> t1, interpolation |-> interpolation]

(* linearBounds(size_t i, const BBox1f& dt): i == 0 *)
linearBoundsRange(t0, t1) == nonlinearBounds(t0, t1)

(* linearBounds(size_t i, size_t itime): i == 0 *)
linearBoundsSegment(itime) ==
    [bounds0 |-> boundsAt(itime), bounds1 |-> boundsAt(itime + 1)]

(* LBBox3fa::bounds(): the merge of the two boxes *)
LBBoxBounds(lb) == BoxMerge(lb.bounds0, lb.bounds1)

(* range<size_t>(begin): the range from begin to begin + 1 *)
range1(begin) == [begin |-> begin, end |-> begin + 1]

(* checks only the first key of the range *)
validFirstKeyOnly(itime_range) == isvalid(boundsAt(itime_range.begin))

(* valid(size_t i, const range<size_t>& itime_range): i == 0; every key from
   begin to end, the end included *)
valid0(itime_range) ==
    \A itime \in itime_range.begin..itime_range.end : isvalid(boundsAt(itime))

(* Geometry::timeSegmentRange(t0t1): the keys the range [t0, t1] touches *)
timeSegmentRange(t0, t1) ==
    LET nseg == numTimeSteps - 1
    IN  [begin |-> Max((t0[1] * nseg) \div t0[2], 0),
         end |-> Min((t1[1] * nseg + t1[2] - 1) \div t1[2], nseg)]

PrimRef(b, geomID, primID) ==
    [bounds |-> b, geomID |-> geomID, primID |-> primID]

(* twice the center of a box *)
center2(b) ==
    [b EXCEPT !.lower = [i \in 1..3 |-> b.lower[i] + b.upper[i]],
              !.upper = [i \in 1..3 |-> b.lower[i] + b.upper[i]]]

(* PrimInfo(empty).add_center2(prim) *)
add_center2(prim) ==
    [num |-> 1, geomBounds |-> prim.bounds, centBounds |-> center2(prim.bounds)]

(* PrimInfoMB(empty).add_primref(prim) *)
add_primref(prim) ==
    [num |-> 1, geomBounds |-> prim.bounds, centBounds |-> prim.bounds]

Call(fn, k, geomID, itime, t0, t1) ==
    [fn |-> fn, k |-> k, geomID |-> geomID, itime |-> itime, t0 |-> t0,
     t1 |-> t1]

createPrimRefArray(k, geomID) ==
    LET b == bounds0
        prim == PrimRef(b, geomID, 0)
    IN  /\ call' = Call("createPrimRefArray", k, geomID, 0, <<0, 1>>, <<1, 1>>)
        /\ IF ~isvalid(b)
           THEN /\ pinfo' = EmptyInfo
                /\ prims' = prims
           ELSE /\ pinfo' = add_center2(prim)
                /\ prims' = [prims EXCEPT ![k] = prim]
        /\ UNCHANGED <<instVars, callVars, batchVars, bezVars, curveVars>>

createPrimRefArrayMB(itime, k, geomID) ==
    LET prim == PrimRef(LBBoxBounds(linearBoundsSegment(itime)), geomID, 0)
    IN  /\ itime + 1 < numTimeSteps
        /\ call' = Call("createPrimRefArrayMB", k, geomID, itime, <<0, 1>>,
                        <<1, 1>>)
        /\ IF ~valid0(range1(itime))
           THEN /\ pinfo' = EmptyInfo
                /\ prims' = prims
           ELSE /\ pinfo' = add_center2(prim)
                /\ prims' = [prims EXCEPT ![k] = prim]
        /\ UNCHANGED <<instVars, callVars, batchVars, bezVars, curveVars>>

createPrimRefMBArray(t0, t1, k, geomID) ==
    LET prim == PrimRef(linearBoundsRange(t0, t1), geomID, 0)
    IN  /\ numTimeSteps >= 2
        /\ t0[1] * t1[2] < t1[1] * t0[2]
        /\ call' = Call("createPrimRefMBArray", k, geomID, 0, t0, t1)
        /\ IF ~valid0(timeSegmentRange(t0, t1))
           THEN /\ pinfo' = EmptyInfo
                /\ prims' = prims
           ELSE /\ pinfo' = add_primref(prim)
                /\ prims' = [prims EXCEPT ![k] = prim]
        /\ UNCHANGED <<instVars, callVars, batchVars, bezVars, curveVars>>

GeomIDs == {3}

(* the entries the committed instances hold: the identity, a quaternion
   decomposition, and a translation that takes the bounds out of the finite
   range *)
Keys == {One, QdHalfTurnZ(5), Translate(FLT_LARGE)}

(* the time ranges asked about: one that ends between two keys of every
   instance with more than two keys, one that starts there, and the whole *)
Ranges == {<<<<0, 1>>, <<1, 3>>>>, <<<<1, 3>>, <<1, 1>>>>, <<<<0, 1>>, <<1, 1>>>>}

(* a committed instance, its accelerator empty or not: every entry is the
   identity but one *)
InitPrimRefs ==
    /\ numTimeSteps \in 1..MaxSteps
    /\ \E j \in 1..numTimeSteps, key \in Keys :
          local2world = [i \in 1..numTimeSteps |-> IF i = j THEN key ELSE One]
    /\ interpolation = updateInterpolationMode(local2world)
    /\ world2local0 = Rcp(Exact(getLocal2WorldIn(interpolation)))
    /\ object \in {UnitBox, EmptyBox}
    /\ err = "none"
    /\ lastOp = Op("commit", 0, One)
    /\ result = NoResult
    /\ qdSincePass = FALSE
    /\ BatchIdle
    /\ ProdIdle
    /\ BezIdle
    /\ CurveIdle

NextPrimRefs ==
    \/ \E k \in 0..(MaxBuf - 1), g \in GeomIDs : createPrimRefArray(k, g)
    \/ \E k \in 0..(MaxBuf - 1), g \in GeomIDs, itime \in 0..(MaxSteps - 2) :
          createPrimRefArrayMB(itime, k, g)
    \/ \E k \in 0..(MaxBuf - 1), g \in GeomIDs, r \in Ranges :
          createPrimRefMBArray(r[1], r[2], k, g)

SpecPrimRefs == InitPrimRefs /\ [][NextPrimRefs]_vars

(***************************************************************************)
(* C7: every producer call either writes exactly one record, at index k,   *)
(* with the given geometry id and primitive id 0, and returns statistics   *)
(* counting that one record, or, when the bounds are invalid at a key of   *)
(* the requested key / segment / time range, writes nothing and returns    *)
(* the empty statistics; no other buffer entry changes.                    *)
(***************************************************************************)
(* the keys the call c asks about *)
RequestedKeys(c) ==
    LET nseg == numTimeSteps - 1
    IN  CASE c.fn = "createPrimRefArray" -> {0}
          [] c.fn = "createPrimRefArrayMB" -> {c.itime, c.itime + 1}
          [] OTHER ->
              {i \in 0..nseg :
                  /\ i * c.t0[2] + c.t0[2] > c.t0[1] * nseg
                  /\ i * c.t1[2] < c.t1[1] * nseg + c.t1[2]}

BoundsValidFor(c) ==
    \A i \in RequestedKeys(c) :
        LET b == xfmBounds(Local2WorldAt(i), object)
        IN  /\ b.fin
            /\ \A j \in 1..3 : -FLT_LARGE < b.lower[j] /\ b.upper[j] < FLT_LARGE

C7_ProducersWriteOneRecordOrNothing ==
    [][/\ \A j \in 0..(MaxBuf - 1) : j # call'.k => prims'[j] = prims[j]
       /\ IF BoundsValidFor(call')
          THEN /\ prims'[call'.k].geomID = call'.geomID
               /\ prims'[call'.k].primID = 0
               /\ pinfo'.num = 1
               /\ pinfo'.geomBounds = prims'[call'.k].bounds
          ELSE /\ prims'[call'.k] = prims[call'.k]
               /\ pinfo' = EmptyInfo]_vars

(* a call that was skipped, over an entry an earlier call had written: the
   key 0 is valid and the key 1 is not *)
C7_Witness ==
    /\ call.fn = "createPrimRefArrayMB"
    /\ pinfo = EmptyInfo
    /\ prims[call.k] = PrimRef(bounds0, call.geomID, 0)
    /\ prims[1 - call.k] = Unwritten
    /\ isvalid(bounds0)

(***************************************************************************)
(* BezierBasis.  The parameter is u = k/n; t1 and t0 = 1 - t1 are kept as  *)
(* numerators over n, a weight vector as four numerators over den.         *)
(***************************************************************************)
(* madd(a, b, c) = a*b + c and msub(a, b, c) = a*b - c *)
madd(a, b, c) == a * b + c
msub(a, b, c) == a * b - c

Weights(fn, den, B0, B1, B2, B3) ==
    [fn |-> fn, den |-> den, w |-> <<B0, B1, B2, B3>>]

(* BezierBasis::eval(u): numerators over n^3 *)
eval(k, n) ==
    LET t1 == k
        t0 == n - t1
        B0 == t0 * t0 * t0
        B1 == 3 * t1 * (t0 * t0)
        B2 == 3 * (t1 * t1) * t0
        B3 == t1 * t1 * t1
    IN  Weights("eval", n * n * n, B0, B1, B2, B3)

(* B2 computed with madd where the code has msub *)
derivativeMaddB2(k, n) ==
    LET t1 == k
        t0 == n - t1
        B0 == -(t0 * t0)
        B1 == madd(-2, t0 * t1, t0 * t0)
        B2 == madd(2, t0 * t1, t1 * t1)
        B3 == t1 * t1
    IN  Weights("derivative", n * n, 3 * B0, 3 * B1, 3 * B2, 3 * B3)

(* BezierBasis::derivative(u): numerators over n^2 *)
derivative(k, n) ==
    LET t1 == k
        t0 == n - t1
        B0 == -(t0 * t0)
        B1 == madd(-2, t0 * t1, t0 * t0)
        B2 == msub(2, t0 * t1, t1 * t1)
        B3 == t1 * t1
    IN  Weights("derivative", n * n, 3 * B0, 3 * B1, 3 * B2, 3 * B3)

(* BezierBasis::derivative2(u): numerators over n *)
derivative2(k, n) ==
    LET t1 == k
        t0 == n - t1
        B0 == t0
        B1 == madd(-2, t0, t1)
        B2 == madd(-2, t1, t0)
        B3 == t1
    IN  Weights("derivative2", n, 6 * B0, 6 * B1, 6 * B2, 6 * B3)

Eval(k, n) ==
    /\ u' = <<k, n>>
    /\ basis' = eval(k, n)
    /\ UNCHANGED <<instVars, callVars, batchVars, prodVars, curveVars>>

Derivative(k, n) ==
    /\ u' = <<k, n>>
    /\ basis' = derivative(k, n)
    /\ UNCHANGED <<instVars, callVars, batchVars, prodVars, curveVars>>

Derivative2(k, n) ==
    /\ u' = <<k, n>>
    /\ basis' = derivative2(k, n)
    /\ UNCHANGED <<instVars, callVars, batchVars, prodVars, curveVars>>

InitBezier == InitInstance

NextBezier ==
    \E n \in 1..MaxGrid : \E k \in 0..n :
        \/ Eval(k, n)
        \/ Derivative(k, n)
        \/ Derivative2(k, n)

SpecBezier == InitBezier /\ [][NextBezier]_vars

(***************************************************************************)
(* C10: at every u = k/n the weights of eval(u) sum to 1, eval(0) is       *)
(* (1,0,0,0) and eval(1) is (0,0,0,1); the weights of derivative(u) and    *)
(* derivative2(u) are the first and second derivatives of the four cubic   *)
(* Bernstein polynomials, the factors 3 and 6 included, and sum to 0.      *)
(***************************************************************************)
(* the cubic Bernstein polynomials C(3,i) u^i (1-u)^(3-i), i = 0..3, as
   coefficients of 1, u, u^2, u^3 *)
Bernstein ==
    << <<1, -3, 3, -1>>, <<0, 3, -6, 3>>, <<0, 0, 3, -3>>, <<0, 0, 0, 1>> >>

(* the derivative of a polynomial given by its coefficients *)
PolyDerivative(c) == [j \in 1..(Len(c) - 1) |-> j * c[j + 1]]

Pow(x, e) == IF e = 0 THEN 1 ELSE IF e = 1 THEN x ELSE IF e = 2 THEN x * x
             ELSE x * x * x

(* n^deg times the value at k/n of the polynomial c of degree deg *)
PolyAt(c, k, n) ==
    LET deg == Len(c) - 1
        term(j) == c[j + 1] * Pow(k, j) * Pow(n, deg - j)
    IN  IF deg = 0 THEN term(0)
        ELSE IF deg = 1 THEN term(0) + term(1)
        ELSE IF deg = 2 THEN term(0) + term(1) + term(2)
        ELSE term(0) + term(1) + term(2) + term(3)

Sum4(w) == w[1] + w[2] + w[3] + w[4]

C10_BezierBasisExact ==
    LET k == u[1]
        n == u[2]
    IN  /\ basis.fn = "eval" =>
            /\ basis.den = n * n * n
            /\ \A i \in 1..4 : basis.w[i] = PolyAt(Bernstein[i], k, n)
            /\ Sum4(basis.w) = basis.den
            /\ k = 0 => basis.w = <<basis.den, 0, 0, 0>>
            /\ k = n => basis.w = <<0, 0, 0, basis.den>>
        /\ basis.fn = "derivative" =>
            /\ basis.den = n * n
            /\ \A i \in 1..4 :
                  basis.w[i] = PolyAt(PolyDerivative(Bernstein[i]), k, n)
            /\ Sum4(basis.w) = 0
        /\ basis.fn = "derivative2" =>
            /\ basis.den = n
            /\ \A i \in 1..4 :
                  basis.w[i] =
                      PolyAt(PolyDerivative(PolyDerivative(Bernstein[i])), k, n)
            /\ Sum4(basis.w) = 0

(* the first derivative at an interior parameter, u = 3/8 *)
C10_Witness ==
    /\ basis.fn = "derivative"
    /\ u = <<3, MaxGrid>>
    /\ basis.w = <<-75, -15, 63, 27>>


(***************************************************************************)
(* BezierCurveT: the table-driven evaluation and the two bounds.  A point  *)
(* is <<x, y, z, w>>, w the radius.  A table weight c[size][ofs] is kept   *)
(* as a numerator over size^3, a derivative weight d[size][ofs] over       *)
(* size^2.                                                                 *)
(***************************************************************************)
(* PrecomputedBezierBasis::N *)
PrecomputedBezierBasis_N == 16

(* const int N = 7 of accurateBounds *)
accurateN == 7

Abs(x) == IF x < 0 THEN -x ELSE x
VMin(a, b) == [i \in 1..4 |-> Min(a[i], b[i])]
VMax(a, b) == [i \in 1..4 |-> Max(a[i], b[i])]
VSub(a, b) == VAdd(a, VNeg(b))

(* madd(b.x,v0,madd(b.y,v1,madd(b.z,v2,b.w*v3))) *)
Combine(b, c) ==
    VAdd(VScale(b[1], c[1]),
         VAdd(VScale(b[2], c[2]), VAdd(VScale(b[3], c[3]), VScale(b[4], c[4]))))

(* bezier_basis0.c0..c3[size][ofs]: the weights of eval at ofs/size, filled
   for ofs <= size *)
bezier_basis0_c(size, ofs) == eval(ofs, size).w

(* bezier_basis0.d0..d3[size][ofs]: the weights of derivative at ofs/size *)
bezier_basis0_d(size, ofs) == derivative(ofs, size).w

(* eval0<M>(ofs, size): lane l is computed from the table entries
   [size][ofs + l]; past the granularity the entry holds nothing known *)
eval0(M, ofs, size) ==
    [l \in 0..(M - 1) |->
        IF ofs + l <= size THEN Combine(bezier_basis0_c(size, ofs + l), curve) ELSE beyond]

(* derivative0<M>(ofs, size) *)
derivative0(M, ofs, size) ==
    [l \in 0..(M - 1) |->
        IF ofs + l <= size THEN Combine(bezier_basis0_d(size, ofs + l), curve) ELSE beyond]

(* one lane-wide load: the routine, the lane width, the arguments, and the
   sample indices of the lanes whose value is kept *)
Load(fn, M, ofs, size, kept) ==
    [fn |-> fn, M |-> M, ofs |-> ofs, size |-> size, kept |-> kept]

(* an accumulator lane: pos_inf / neg_inf until a value is kept in it *)
Infinite == [set |-> FALSE, v |-> <<0, 0, 0, 0>>]
Keep(x) == [set |-> TRUE, v |-> x]
MinInto(acc, x) == IF acc.set THEN Keep(VMin(acc.v, x)) ELSE Keep(x)
MaxInto(acc, x) == IF acc.set THEN Keep(VMax(acc.v, x)) ELSE Keep(x)

(* reduce_min / reduce_max of component i over the lanes *)
reduce_min(acc, i) == SetMin({acc[l].v[i] : l \in {k \in DOMAIN acc : acc[k].set}})
reduce_max(acc, i) == SetMax({acc[l].v[i] : l \in {k \in DOMAIN acc : acc[k].set}})

(* enlarge(BBox3fa(lower, upper), Vec3fa(r)) *)
enlarge(den, lower, upper, r) ==
    [den |-> den, lower |-> [i \in 1..3 |-> lower[i] - r],
     upper |-> [i \in 1..3 |-> upper[i] + r]]

CallIdle == cpc \in {"idle", "done"}

(* accurateBounds(): entry *)
accurateBounds ==
    /\ CallIdle
    /\ cpc' = "accurate_loop"
    /\ cfn' = "accurateBounds"
    /\ cN' = accurateN
    /\ ci' = 0
    /\ pl' = [l \in 0..(vsizex - 1) |-> Infinite]
    /\ pu' = [l \in 0..(vsizex - 1) |-> Infinite]
    /\ ru' = <<>>
    /\ box' = NoBox
    /\ loads' = {}
    /\ UNCHANGED <<instVars, callVars, batchVars, prodVars, bezVars, curve,
                   vsizex, beyond>>

(* accurateBounds(): one iteration of for (i=0; i<=N; i+=VSIZEX); the values
   are numerators over N^3 * 3*(N-1) *)
accurateBoundsLoop ==
    /\ cpc = "accurate_loop"
    /\ ci <= accurateN
    /\ LET vi(l) == ci + l
           keepLane(l) == vi(l) <= accurateN
           p == eval0(vsizex, ci, accurateN)
           dp == derivative0(vsizex, ci, accurateN)
           zero == <<0, 0, 0, 0>>
           P(l) == VScale(3 * (accurateN - 1), p[l])
           pm(l) == VSub(P(l), IF vi(l) # 0 THEN VScale(accurateN, dp[l])
                               ELSE zero)
           pp(l) == VAdd(P(l), IF vi(l) # accurateN
                               THEN VScale(accurateN, dp[l]) ELSE zero)
           kept == {vi(l) : l \in {k \in 0..(vsizex - 1) : keepLane(k)}}
       IN  /\ pl' = [l \in DOMAIN pl |->
                        IF keepLane(l)
                        THEN MinInto(pl[l], VMin(P(l), VMin(pm(l), pp(l))))
                        ELSE pl[l]]
           /\ pu' = [l \in DOMAIN pu |->
                        IF keepLane(l)
                        THEN MaxInto(pu[l], VMax(P(l), VMax(pm(l), pp(l))))
                        ELSE pu[l]]
           /\ loads' = loads \cup
                  {Load("eval0", vsizex, ci, accurateN, kept),
                   Load("derivative0", vsizex, ci, accurateN, kept)}
    /\ ci' = ci + vsizex
    /\ UNCHANGED <<instVars, callVars, batchVars, prodVars, bezVars, curve,
                   vsizex, beyond, cpc, cfn, cN, ru, box>>

(* accurateBounds(): the reduction after the loop *)
accurateBoundsReturn ==
    /\ cpc = "accurate_loop"
    /\ ci > accurateN
    /\ LET lower == [i \in 1..3 |-> reduce_min(pl, i)]
           upper == [i \in 1..3 |-> reduce_max(pu, i)]
           r_min == reduce_min(pl, 4)
           r_max == reduce_max(pu, 4)
           upper_r == Max(Abs(r_min), Abs(r_max))
       IN  box' = enlarge(accurateN * accurateN * accurateN
                              * 3 * (accurateN - 1),
                          lower, upper, upper_r)
    /\ cpc' = "done"
    /\ UNCHANGED <<instVars, callVars, batchVars, prodVars, bezVars, curve,
                   vsizex, beyond, cfn, cN, ci, pl, pu, ru, loads>>


(* BBox3fa(min(lower,v3),max(upper,v3)) enlarged by max(upper_r,abs(v3.w)),
   v3 brought to the denominator den *)
PolylineBox(den, lower, upper, upper_r) ==
    LET v3 == VScale(den, curve[4])
    IN  enlarge(den, [i \in 1..3 |-> Min(lower[i], v3[i])],
                [i \in 1..3 |-> Max(upper[i], v3[i])],
                Max(upper_r, Abs(v3[4])))

(* returns the box of the samples alone *)
tessellatedBoundsReturnWithoutEnd ==
    /\ cpc = "tessellated_loop"
    /\ ci >= cN
    /\ box' = enlarge(cN * cN * cN, [i \in 1..3 |-> reduce_min(pl, i)],
                      [i \in 1..3 |-> reduce_max(pu, i)],
                      SetMax({ru[l] : l \in DOMAIN ru}))
    /\ cpc' = "done"
    /\ UNCHANGED <<instVars, callVars, batchVars, prodVars, bezVars, curve,
                   vsizex, beyond, cfn, cN, ci, pl, pu, ru, loads>>

(* keeps the lanes up to and including the segment count *)
tessellatedBoundsLoopInclusive ==
    /\ cpc = "tessellated_loop"
    /\ ci < cN
    /\ LET keepLane(l) == ci + l <= cN
           pi == eval0(vsizex, ci, cN)
           kept == {ci + l : l \in {k \in 0..(vsizex - 1) : keepLane(k)}}
       IN  /\ pl' = [l \in DOMAIN pl |->
                        IF keepLane(l) THEN MinInto(pl[l], pi[l]) ELSE pl[l]]
           /\ pu' = [l \in DOMAIN pu |->
                        IF keepLane(l) THEN MaxInto(pu[l], pi[l]) ELSE pu[l]]
           /\ ru' = [l \in DOMAIN ru |->
                        IF keepLane(l) THEN Max(ru[l], Abs(pi[l][4]))
                        ELSE ru[l]]
           /\ loads' = loads \cup {Load("eval0", vsizex, ci, cN, kept)}
    /\ ci' = ci + vsizex
    /\ UNCHANGED <<instVars, callVars, batchVars, prodVars, bezVars, curve,
                   vsizex, beyond, cpc, cfn, cN, box>>

(* tessellatedBounds(N): entry, and the whole of the N == 4 path *)
tessellatedBounds(segments) ==
    /\ CallIdle
    /\ cfn' = "tessellatedBounds"
    /\ cN' = segments
    /\ ci' = 0
    /\ IF segments = 4
       THEN LET pi == [l \in 0..3 |-> Keep(eval0(4, 0, 4)[l])]
                upper_r == SetMax({Abs(pi[l].v[4]) : l \in 0..3})
            IN  /\ box' = PolylineBox(4 * 4 * 4,
                                      [i \in 1..3 |-> reduce_min(pi, i)],
                                      [i \in 1..3 |-> reduce_max(pi, i)],
                                      upper_r)
                /\ loads' = {Load("eval0", 4, 0, 4, 0..3)}
                /\ pl' = <<>>
                /\ pu' = <<>>
                /\ ru' = <<>>
                /\ cpc' = "done"
       ELSE /\ pl' = [l \in 0..(vsizex - 1) |-> Infinite]
            /\ pu' = [l \in 0..(vsizex - 1) |-> Infinite]
            /\ ru' = [l \in 0..(vsizex - 1) |-> 0]
            /\ box' = NoBox
            /\ loads' = {}
            /\ cpc' = "tessellated_loop"
    /\ UNCHANGED <<instVars, callVars, batchVars, prodVars, bezVars, curve,
                   vsizex, beyond>>

(* tessellatedBounds(N): one iteration of for (i=0; i<N; i+=VSIZEX); the
   values are numerators over N^3 *)
tessellatedBoundsLoop ==
    /\ cpc = "tessellated_loop"
    /\ ci < cN
    /\ LET keepLane(l) == ci + l < cN
           pi == eval0(vsizex, ci, cN)
           kept == {ci + l : l \in {k \in 0..(vsizex - 1) : keepLane(k)}}
       IN  /\ pl' = [l \in DOMAIN pl |->
                        IF keepLane(l) THEN MinInto(pl[l], pi[l]) ELSE pl[l]]
           /\ pu' = [l \in DOMAIN pu |->
                        IF keepLane(l) THEN MaxInto(pu[l], pi[l]) ELSE pu[l]]
           /\ ru' = [l \in DOMAIN ru |->
                        IF keepLane(l) THEN Max(ru[l], Abs(pi[l][4]))
                        ELSE ru[l]]
           /\ loads' = loads \cup {Load("eval0", vsizex, ci, cN, kept)}
    /\ ci' = ci + vsizex
    /\ UNCHANGED <<instVars, callVars, batchVars, prodVars, bezVars, curve,
                   vsizex, beyond, cpc, cfn, cN, box>>

(* tessellatedBounds(N): the reduction after the loop *)
tessellatedBoundsReturn ==
    /\ cpc = "tessellated_loop"
    /\ ci >= cN
    /\ box' = PolylineBox(cN * cN * cN, [i \in 1..3 |-> reduce_min(pl, i)],
                          [i \in 1..3 |-> reduce_max(pu, i)],
                          SetMax({ru[l] : l \in DOMAIN ru}))
    /\ cpc' = "done"
    /\ UNCHANGED <<instVars, callVars, batchVars, prodVars, bezVars, curve,
                   vsizex, beyond, cfn, cN, ci, pl, pu, ru, loads>>

(* the control points the curves are made of, the lane widths of the builds,
   and what a lane may compute from an entry past the granularity *)
Points == {<<0, 0, 0, 1>>, <<4, 12, 0, 0>>, <<12, -6, 3, 2>>}
LaneWidths == {4, 8, 16}
Beyond == {<<0, 0, 0, 0>>, <<-900, 900, -900, 900>>}

InitCurve ==
    /\ numTimeSteps = 1
    /\ local2world = <<One>>
    /\ world2local0 = Rcp(Exact(One))
    /\ interpolation = LINEAR
    /\ object = UnitBox
    /\ err = "none"
    /\ lastOp = Op("create", 1, One)
    /\ result = NoResult
    /\ qdSincePass = FALSE
    /\ BatchIdle
    /\ ProdIdle
    /\ BezIdle
    /\ curve \in [1..4 -> Points]
    /\ vsizex \in LaneWidths
    /\ beyond \in Beyond
    /\ cpc = "idle"
    /\ cfn = "none"
    /\ cN = 0
    /\ ci = 0
    /\ pl = <<>>
    /\ pu = <<>>
    /\ ru = <<>>
    /\ box = NoBox
    /\ loads = {}

NextCurve ==
    \/ accurateBounds
    \/ accurateBoundsLoop
    \/ accurateBoundsReturn
    \/ \E segments \in 1..PrecomputedBezierBasis_N : tessellatedBounds(segments)
    \/ tessellatedBoundsLoop
    \/ tessellatedBoundsReturn

SpecCurve == InitCurve /\ [][NextCurve]_vars


(***************************************************************************)
(* Claims about the bounds of a curve, checked under SpecCurve.            *)
(***************************************************************************)
(* BezierCurveT::eval(t) at t = k/n: numerators over n^3 *)
curveEval(k, n) == Combine(eval(k, n).w, curve)

(* the box returned contains the point whose coordinates are pt[i]/den *)
BoxContains(pt, den) ==
    \A i \in 1..3 :
        /\ box.lower[i] * den <= pt[i] * box.den
        /\ pt[i] * box.den <= box.upper[i] * den

ContainsMidpoint == BoxContains(curveEval(1, 2), 2 * 2 * 2)

(* C11 as stated: the box returned by accurateBounds() and the box returned
   by tessellatedBounds(N), N in 1..16, each contain the four control points
   v0, v1, v2, v3 and the midpoint eval(0.5). *)
C11_Original ==
    cpc = "done" =>
        /\ \A j \in 1..4 : BoxContains(curve[j], 1)
        /\ ContainsMidpoint

(* C11 as amended: both boxes contain the end control points v0 and v3;
   the box of accurateBounds() contains eval(0.5), and so does the box of
   tessellatedBounds(N) when N is even. *)
C11_EndPointsAndMidpoint ==
    cpc = "done" =>
        /\ BoxContains(curve[1], 1)
        /\ BoxContains(curve[4], 1)
        /\ (cfn = "accurateBounds" \/ cN % 2 = 0) => ContainsMidpoint

(* accurateBounds() of a curve whose second control point lies outside the
   returned box, the midpoint inside *)
C11_Witness ==
    /\ cpc = "done"
    /\ cfn = "accurateBounds"
    /\ curve[1] # curve[4]
    /\ ~BoxContains(curve[2], 1)
    /\ ContainsMidpoint
    /\ BoxContains(curve[1], 1)
    /\ BoxContains(curve[4], 1)

(* the sample indices whose values the call kept *)
KeptSamples == UNION {ld.kept : ld \in loads}

(* the box of the polyline through the samples S of granularity n and the
   end point v3, enlarged by the largest radius: numerators over n^3 *)
SampleBox(S, n) ==
    LET den == n * n * n
        pts == {curveEval(j, n) : j \in S} \cup {VScale(den, curve[4])}
        r == SetMax({Abs(pt[4]) : pt \in pts})
    IN  [den |-> den,
         lower |-> [i \in 1..3 |-> SetMin({pt[i] : pt \in pts}) - r],
         upper |-> [i \in 1..3 |-> SetMax({pt[i] : pt \in pts}) + r]]

(* C12: for the lane widths 4, 8 and 16 and every N in 1..16, every
   table-driven call of accurateBounds() and tessellatedBounds(N) has
   granularity <= 16 and offset <= granularity, every entry a lane-wide load
   reads lies inside the 17-entry row, and every lane kept by the validity
   mask reads a sample index <= granularity; the kept indices are exactly
   0..7 for accurateBounds and exactly 0..N-1 for tessellatedBounds, whose
   box is that of these samples and v3, on the N = 4 path as on the general
   one. *)
C12_TableAccessInsideRow ==
    /\ \A ld \in loads :
          /\ ld.size <= PrecomputedBezierBasis_N
          /\ ld.ofs <= ld.size
          /\ ld.ofs + ld.M - 1 <= PrecomputedBezierBasis_N
          /\ \A j \in ld.kept :
                j <= ld.size /\ ld.ofs <= j /\ j <= ld.ofs + ld.M - 1
    /\ (cpc = "done" /\ cfn = "accurateBounds") =>
          KeptSamples = 0..accurateN
    /\ (cpc = "done" /\ cfn = "tessellatedBounds") =>
          /\ KeptSamples = 0..(cN - 1)
          /\ box = SampleBox(0..(cN - 1), cN)

(* tessellatedBounds(5) at lane width 4: the second load keeps one lane and
   masks three that read past the granularity *)
C12_Witness ==
    /\ cpc = "done"
    /\ cfn = "tessellatedBounds"
    /\ cN = 5
    /\ vsizex = 4
    /\ beyond # <<0, 0, 0, 0>>
    /\ Load("eval0", 4, 4, 5, {4}) \in loads
    /\ Cardinality(loads) = 2

=============================================================================
